---------------------------- MODULE Spec2Model ----------------------------
(***************************************************************************)
(* Model of src/src/index.js: the verification-email Lambda handler.       *)
(*                                                                         *)
(* A JavaScript string is a sequence of pieces.  The characters of a       *)
(* payload value are one piece each; a string literal of the source is a   *)
(* single piece holding the literal.  The string denoted is the            *)
(* concatenation of the pieces, the empty string is << >>, and JavaScript  *)
(* + and template interpolation are \o.  Equal piece sequences denote      *)
(* equal strings.                                                          *)
(***************************************************************************)
EXTENDS Naturals, Sequences, FiniteSets

\* Events delivered by the notification transport, each invoked concurrently.
NumEvents == 2

\* README, "Retry Logic": an asynchronous invocation that failed is retried twice.
MaxRetries == 2

Events == 1..NumEvents

\* ------------------------------------------------------ JavaScript values
Str(s) == [t |-> "string", s |-> s]
Undefined == [t |-> "undefined", s |-> << >>]
Null == [t |-> "null", s |-> << >>]
\* The object JSON.parse gives for {"toString": 1}: its own toString is not
\* callable and the inherited valueOf returns the object itself, so it has no
\* primitive value.
NoPrimitive == [t |-> "object", s |-> << >>]

\* ToPrimitive/ToString as applied by + and by template interpolation: a
\* conversion that throws TypeError is reported by Coercible.
Coercible(v) == v.t # "object"

ToString(v) ==
  CASE v.t = "string" -> v.s
    [] v.t = "undefined" -> <<"undefined">>
    [] v.t = "null" -> <<"null">>
    [] OTHER -> << >>

\* --------------------------------------------------------------- payloads
FieldNames == {"first_name", "last_name", "password", "username", "email", "token"}

Jane == <<"J", "a", "n", "e">>
Doe == <<"D", "o", "e">>
JaneMail == <<"j", "@", "x">>
OddMail == <<"a", "&", "b", " ", "%">>
Abc123 == <<"a", "1">>
OddToken == <<"x", "=", "y", "#">>

User(first, last, pw, un, mail, tok) ==
  [first_name |-> first, last_name |-> last, password |-> pw,
   username |-> un, email |-> mail, token |-> tok]

\* Sns.Message of a notification record: JSON text, described by whether it is
\* valid JSON and by the value it denotes.
JsonObject(o) == [valid |-> TRUE, kind |-> "object", fields |-> o]
JsonNull == [valid |-> TRUE, kind |-> "null", fields |-> << >>]
JsonNumber == [valid |-> TRUE, kind |-> "number", fields |-> << >>]
NotJson == [valid |-> FALSE, kind |-> "none", fields |-> << >>]

Record(msg) == [Sns |-> [Message |-> msg]]
EventOf(msg) == [hasRecords |-> TRUE, Records |-> <<Record(msg)>>]
NoRecordsEvent == [hasRecords |-> FALSE, Records |-> << >>]
EmptyRecordsEvent == [hasRecords |-> TRUE, Records |-> << >>]

BaseUser ==
  User(Str(Jane), Str(Doe), Str(<<"p", "1">>), Str(<<"u", "1">>), Str(JaneMail), Str(Abc123))

UserObjects ==
  { BaseUser,
    [BaseUser EXCEPT !.username = Str(<<"u", "2">>)],
    [BaseUser EXCEPT !.password = Str(<<"p", "2">>), !.username = Str(<<"u", "2">>)],
    [BaseUser EXCEPT !.email = Str(OddMail), !.token = Str(OddToken)],
    [BaseUser EXCEPT !.first_name = NoPrimitive],
    [BaseUser EXCEPT !.email = NoPrimitive] }

\* An object that lacks username and password, and one that holds only a null
\* last_name.
PartialObjects ==
  { [first_name |-> Str(Jane), last_name |-> Str(Doe),
     email |-> Str(JaneMail), token |-> Str(Abc123)],
    [last_name |-> Null] }

InputEvents ==
  {NoRecordsEvent, EmptyRecordsEvent}
    \cup {EventOf(m) : m \in {NotJson, JsonNull, JsonNumber}}
    \cup {EventOf(JsonObject(o)) : o \in UserObjects \cup PartialObjects}

\* ------------------------------------------------------------ the handler
Throw(kind) == [ok |-> FALSE, error |-> kind, value |-> << >>]
Ok(v) == [ok |-> TRUE, error |-> "none", value |-> v]

JSONParseLenient(ev) ==
  IF ev.hasRecords /\ Len(ev.Records) > 0 /\ ev.Records[1].Sns.Message.valid
    THEN Ok(ev.Records[1].Sns.Message)
    ELSE Ok(JsonObject(<< >>))

\* JSON.parse(event.Records[0].Sns.Message)
JSONParse(ev) ==
  IF ~ev.hasRecords THEN Throw("TypeError")
  ELSE IF Len(ev.Records) = 0 THEN Throw("TypeError")
  ELSE LET m == ev.Records[1].Sns.Message IN
       IF ~m.valid THEN Throw("SyntaxError") ELSE Ok(m)

Get(o, name) == IF name \in DOMAIN o THEN o[name] ELSE Undefined

\* const { first_name, last_name, password, username, email, token } = <parsed>
Destructure(j) ==
  IF j.kind = "null" THEN Throw("TypeError")
  ELSE LET o == IF j.kind = "object" THEN j.fields ELSE << >> IN
       Ok([n \in FieldNames |-> Get(o, n)])

LinkBase == <<"http://prod.polepeddiaravind.me/v1/verifyUserEmail?email=">>
TokenParam == <<"&token=">>

EncodeChar(c) ==
  CASE c = "&" -> "%26" [] c = " " -> "%20" [] c = "%" -> "%25"
    [] c = "=" -> "%3D" [] c = "#" -> "%23" [] c = "@" -> "%40" [] OTHER -> c

VerificationLinkEncoded(email, token) ==
  LinkBase \o [i \in 1..Len(ToString(email)) |-> EncodeChar(ToString(email)[i])]
    \o TokenParam \o [i \in 1..Len(ToString(token)) |-> EncodeChar(ToString(token)[i])]

VerificationLink(email, token) ==
  LinkBase \o ToString(email) \o TokenParam \o ToString(token) \o << >>

HtmlHead == <<"<html><body>Hello ">>
HtmlMid ==
  <<",<br> Thank you for subscribing. To use the portal verify by clicking the below link.<br><br><a href=">>
HtmlTail ==
  <<">Verify your account</a><br><br><br> Kind Regards,<br> <strong>Team CSYE6225!<strong></body></html>">>

HtmlData(first_name, last_name, verificationLink) ==
  HtmlHead \o ToString(first_name) \o <<" ">> \o ToString(last_name)
    \o HtmlMid \o verificationLink \o HtmlTail

SubjectData == <<"Subscribe to the link to use service">>
SourceAddress == <<"aravind@yprod.polepeddiaravind.me">>

ToAddressesSwapped(f) == <<f.username>>

ToAddresses(f) == <<f.email>>

HtmlDataLeaky(f) ==
  HtmlData(f.first_name, f.last_name, VerificationLink(f.email, f.password))

HtmlOf(f) ==
  HtmlData(f.first_name, f.last_name, VerificationLink(f.email, f.token))

Params(f) ==
  [Destination |-> [ToAddresses |-> ToAddresses(f)],
   Message |-> [Body |-> [Html |-> [Data |-> HtmlOf(f)]],
                Subject |-> [Data |-> SubjectData]],
   Source |-> SourceAddress]

\* Lines 8-23: everything the handler does before the try block.
BeforeTry(ev) ==
  LET j == JSONParse(ev) IN
  IF ~j.ok THEN j
  ELSE LET d == Destructure(j.value) IN
       IF ~d.ok THEN d
       ELSE LET f == d.value IN
            IF \E n \in {"email", "token", "first_name", "last_name"} : ~Coercible(f[n])
              THEN Throw("TypeError")
              ELSE Ok(Params(f))

NoResult == [kind |-> "none", statusCode |-> 0, body |-> ""]
Return(code, text) == [kind |-> "return", statusCode |-> code, body |-> text]
Fault(err) == [kind |-> "fault", statusCode |-> 0, body |-> err]

TryResult == Return(200, "Email sent!")

CatchRethrow == Fault("Error")

CatchResult == Return(400, "Sending failed")

\* ------------------------------------------------------------------ state
VARIABLES
  event,     \* event[e]: the payload the transport delivers for e
  attempts,  \* attempts[e]: invocations the platform has started for e
  pc,        \* pc[e]: "queued", "awaiting" (suspended at the await), "returned", "faulted"
  call,      \* call[e]: the sendEmail call of the current invocation:
             \*   "none", "threw", "pending", "resolved", "rejected"
  sent,      \* sent[e]: the send requests the current invocation has issued
  result,    \* result[e]: how the latest invocation ended
  logged,    \* logged[e]: console.error calls of the current invocation
  SES        \* the module-level client, shared by every invocation

vars == <<event, attempts, pc, call, sent, result, logged, SES>>

Init ==
  /\ event \in [Events -> InputEvents]
  /\ attempts = [e \in Events |-> 0]
  /\ pc = [e \in Events |-> "queued"]
  /\ call = [e \in Events |-> "none"]
  /\ sent = [e \in Events |-> << >>]
  /\ result = [e \in Events |-> NoResult]
  /\ logged = [e \in Events |-> 0]
  /\ SES = [service |-> "SES", config |-> "default"]

\* The platform invokes the handler for an event on delivery, and again only
\* after an invocation of it failed, MaxRetries times at most.
MayInvoke(e) ==
  \/ pc[e] = "queued"
  \/ pc[e] = "faulted" /\ attempts[e] < 1 + MaxRetries

CompletionNoCatch(outcome) ==
  IF outcome \in {"rejected", "threw"} THEN Fault("Error") ELSE TryResult

CompletionCallOutsideTry(outcome) ==
  CASE outcome = "rejected" -> CatchResult
    [] outcome = "threw" -> Fault("Error")
    [] OTHER -> TryResult

\* The try/catch around `await SES.sendEmail(params).promise()`: what the
\* handler makes of the call's outcome.
Completion(outcome) ==
  IF outcome \in {"rejected", "threw"} THEN CatchResult ELSE TryResult

Caught(outcome) == outcome \in {"rejected", "threw"}

PcOf(r) == IF r.kind = "fault" THEN "faulted" ELSE "returned"

ClientOverwritten(e) == [SES EXCEPT !.config = "invocation"]

\* The module-level bindings after a step of invocation e: the handler assigns
\* to none of them.
ClientAfter(e) == SES

\* One invocation, from its start to its first suspension or its end: the
\* statements before the try block, then the send call.  sendEmail(...).promise()
\* either throws while the call is issued or hands back a pending promise.
Invoke(e) ==
  /\ MayInvoke(e)
  /\ attempts' = [attempts EXCEPT ![e] = @ + 1]
  /\ LET b == BeforeTry(event[e]) IN
     IF ~b.ok
       THEN /\ result' = [result EXCEPT ![e] = Fault(b.error)]
            /\ pc' = [pc EXCEPT ![e] = "faulted"]
            /\ call' = [call EXCEPT ![e] = "none"]
            /\ sent' = [sent EXCEPT ![e] = << >>]
            /\ logged' = [logged EXCEPT ![e] = 0]
       ELSE \E issued \in {"pending", "threw"} :
            /\ sent' = [sent EXCEPT ![e] = <<b.value>>]
            /\ call' = [call EXCEPT ![e] = issued]
            /\ IF issued = "pending"
                 THEN /\ pc' = [pc EXCEPT ![e] = "awaiting"]
                      /\ result' = [result EXCEPT ![e] = NoResult]
                      /\ logged' = [logged EXCEPT ![e] = 0]
                 ELSE /\ result' = [result EXCEPT ![e] = Completion(issued)]
                      /\ pc' = [pc EXCEPT ![e] = PcOf(Completion(issued))]
                      /\ logged' = [logged EXCEPT ![e] = 1]
  /\ SES' = ClientAfter(e)
  /\ UNCHANGED event

\* The email collaborator settles the pending promise.
Settle(e) ==
  /\ pc[e] = "awaiting"
  /\ call[e] = "pending"
  /\ \E outcome \in {"resolved", "rejected"} : call' = [call EXCEPT ![e] = outcome]
  /\ UNCHANGED <<event, attempts, pc, sent, result, logged, SES>>

AwaitSkipped(e) == TRUE

\* `await`: the handler continues only once the promise has settled.
AwaitDone(e) == call[e] \in {"resolved", "rejected"}

ResumeWithRetry(e) ==
  /\ pc[e] = "awaiting"
  /\ AwaitDone(e)
  /\ IF call[e] = "rejected" /\ Len(sent[e]) < 2
       THEN /\ sent' = [sent EXCEPT ![e] = Append(@, @[1])]
            /\ call' = [call EXCEPT ![e] = "pending"]
            /\ UNCHANGED <<result, pc, logged>>
       ELSE /\ result' = [result EXCEPT ![e] = Completion(call[e])]
            /\ pc' = [pc EXCEPT ![e] = PcOf(Completion(call[e]))]
            /\ logged' = [logged EXCEPT ![e] = IF Caught(call[e]) THEN 1 ELSE 0]
            /\ UNCHANGED <<sent, call>>
  /\ SES' = ClientAfter(e)
  /\ UNCHANGED <<event, attempts>>

\* The handler continues after the await and ends: the return of the try
\* block, or the catch block.
Resume(e) ==
  /\ pc[e] = "awaiting"
  /\ AwaitDone(e)
  /\ result' = [result EXCEPT ![e] = Completion(call[e])]
  /\ pc' = [pc EXCEPT ![e] = PcOf(Completion(call[e]))]
  /\ logged' = [logged EXCEPT ![e] = IF Caught(call[e]) THEN 1 ELSE 0]
  /\ SES' = ClientAfter(e)
  /\ UNCHANGED <<event, attempts, call, sent>>

Next == \E e \in Events : Invoke(e) \/ Settle(e) \/ Resume(e)

Spec == Init /\ [][Next]_vars

\* ----------------------------------------------------------- the claims
\* What the claims say of an input is read off the event itself.
HasMessage(ev) == ev.hasRecords /\ Len(ev.Records) > 0
MessageOf(ev) == ev.Records[1].Sns.Message
IsObject(ev) == HasMessage(ev) /\ MessageOf(ev).valid /\ MessageOf(ev).kind = "object"
Field(ev, n) ==
  IF IsObject(ev) /\ n \in DOMAIN MessageOf(ev).fields
    THEN MessageOf(ev).fields[n] ELSE Undefined
Interpolated == {"first_name", "last_name", "email", "token"}

\* The first record's message is a JSON object with string first_name,
\* last_name, email and token.
WellFormed(ev) ==
  /\ IsObject(ev)
  /\ \A n \in Interpolated :
       n \in DOMAIN MessageOf(ev).fields /\ MessageOf(ev).fields[n].t = "string"

\* The record list is missing or empty, or the message is not valid JSON.
Malformed(ev) == ~HasMessage(ev) \/ ~MessageOf(ev).valid

\* Step 1 succeeds: the message is JSON and destructures into the named fields.
Parses(ev) == HasMessage(ev) /\ MessageOf(ev).valid /\ MessageOf(ev).kind # "null"

\* Every interpolated field has a string conversion.
Renders(ev) == \A n \in Interpolated : Field(ev, n).t # "object"

Ended(e) == pc[e] \in {"returned", "faulted"}

Contains(s, x) ==
  \E i \in 0..(Len(s) - Len(x)) : SubSeq(s, i + 1, i + Len(x)) = x

\* C1: for a well-formed payload whose send resolved, the handler returns
\* {statusCode: 200, body: 'Email sent!'} and has issued exactly one send
\* request, whose destination list is [email] of the input.
C1_SuccessReturns200 ==
  \A e \in Events :
    WellFormed(event[e]) /\ call[e] = "resolved" =>
      /\ Len(sent[e]) = 1
      /\ sent[e][1].Destination.ToAddresses = <<Field(event[e], "email")>>
      /\ pc[e] \in {"awaiting", "returned"}
      /\ pc[e] = "returned" =>
           result[e] = [kind |-> "return", statusCode |-> 200, body |-> "Email sent!"]

C1_Witness ==
  \E e \in Events :
    /\ WellFormed(event[e]) /\ call[e] = "resolved" /\ pc[e] = "returned"
    /\ Field(event[e], "email") # Field(event[e], "username")

C3_MalformedFaults ==
  \A e \in Events :
    Malformed(event[e]) =>
      /\ result[e].kind # "return"
      /\ pc[e] \in {"queued", "faulted"}
      /\ attempts[e] > 0 => pc[e] = "faulted" /\ result[e].kind = "fault"
      /\ sent[e] = << >>

C3_Witness ==
  /\ \E e \in Events : ~event[e].hasRecords /\ pc[e] = "faulted"
  /\ \E e \in Events : HasMessage(event[e]) /\ ~MessageOf(event[e]).valid /\ pc[e] = "faulted"

\* The value of the href attribute: what stands between the template's text
\* before the link and its text after it.
HrefOf(body) ==
  LET a == CHOOSE i \in 1..Len(body) : body[i] = HtmlMid[1]
      b == CHOOSE i \in 1..Len(body) : body[i] = HtmlTail[1]
  IN SubSeq(body, a + 1, b - 1)

\* C4: for a well-formed payload the link in the HTML body is exactly
\* "http://prod.polepeddiaravind.me/v1/verifyUserEmail?email=" + email +
\* "&token=" + token, character for character, and the body contains
\* first_name and last_name verbatim.
C4_LinkIsPlainConcatenation ==
  \A e \in Events :
    WellFormed(event[e]) /\ Len(sent[e]) > 0 =>
      LET body == sent[e][1].Message.Body.Html.Data
          href == HrefOf(body)
          email == Field(event[e], "email").s
          token == Field(event[e], "token").s
      IN /\ href[1] = "http://prod.polepeddiaravind.me/v1/verifyUserEmail?email="
         /\ Len(href) = Len(email) + Len(token) + 2
         /\ \A k \in 1..Len(email) : href[1 + k] = email[k]
         /\ href[2 + Len(email)] = "&token="
         /\ \A k \in 1..Len(token) : href[2 + Len(email) + k] = token[k]
         /\ Contains(body, href)
         /\ Contains(body, Field(event[e], "first_name").s)
         /\ Contains(body, Field(event[e], "last_name").s)

C4_Witness ==
  \E e \in Events :
    /\ WellFormed(event[e]) /\ Len(sent[e]) = 1
    /\ Field(event[e], "email").s = OddMail
    /\ Field(event[e], "token").s = OddToken

\* C5 as stated: an invocation issues at most one send request, exactly one
\* when the payload parses and none when it faults during parsing.
C5_OneSendWheneverParsed ==
  \A e \in Events :
    attempts[e] > 0 =>
      /\ Len(sent[e]) <= 1
      /\ Parses(event[e]) => Len(sent[e]) = 1
      /\ ~Parses(event[e]) => Len(sent[e]) = 0

\* C5 as amended: an invocation issues at most one send request, whatever the
\* collaborator's outcome: exactly one when the payload parses and every
\* interpolated field converts to a string, none when the invocation faults
\* before the send, during parsing or while the link and the body are built.
C5_OneSendWhenRendered ==
  \A e \in Events :
    attempts[e] > 0 =>
      /\ Len(sent[e]) <= 1
      /\ Parses(event[e]) /\ Renders(event[e]) => Len(sent[e]) = 1
      /\ ~(Parses(event[e]) /\ Renders(event[e])) => Len(sent[e]) = 0 /\ pc[e] = "faulted"

C5_Witness ==
  /\ \E e \in Events : call[e] = "rejected" /\ pc[e] = "returned" /\ Len(sent[e]) = 1
  /\ \E e \in Events :
       Parses(event[e]) /\ ~Renders(event[e]) /\ pc[e] = "faulted" /\ Len(sent[e]) = 0

WithoutCredentials(ev) ==
  IF ~IsObject(ev) THEN ev
  ELSE LET o == MessageOf(ev).fields IN
       EventOf(JsonObject([n \in (DOMAIN o) \ {"username", "password"} |-> o[n]]))

\* C8: two invocations whose payloads differ only in username and password
\* issue identical send requests and, with the same collaborator outcome, end
\* with identical results.
C8_CredentialsUnused ==
  \A e, f \in Events :
    WithoutCredentials(event[e]) = WithoutCredentials(event[f]) =>
      /\ attempts[e] > 0 /\ attempts[f] > 0 => sent[e] = sent[f]
      /\ Ended(e) /\ Ended(f) /\ call[e] = call[f] => result[e] = result[f]

C8_Witness ==
  \E e, f \in Events :
    /\ WithoutCredentials(event[e]) = WithoutCredentials(event[f])
    /\ Field(event[e], "username") # Field(event[f], "username")
    /\ Field(event[e], "password") # Field(event[f], "password")
    /\ pc[e] = "returned" /\ pc[f] = "returned" /\ call[e] = call[f]
    /\ Len(sent[e]) = 1

\* What one invocation owns.
Local(e) == <<attempts[e], pc[e], call[e], sent[e], result[e], logged[e]>>

\* C9: concurrent invocations are independent in every interleaving: a step
\* changes the state of one invocation only, the shared client is never
\* changed, and what an invocation sent and returned is fixed by its own
\* payload and its own collaborator outcome.
C9_InvocationsIndependent ==
  /\ [][SES' = SES]_vars
  /\ [][\E e \in Events : \A f \in Events \ {e} : Local(f)' = Local(f)]_vars
  /\ [](\A e, f \in Events :
          event[e] = event[f] /\ call[e] = call[f] /\ pc[e] = pc[f] /\ attempts[e] > 0 =>
            sent[e] = sent[f] /\ result[e] = result[f])

C9_Witness ==
  \E e, f \in Events :
    /\ e # f /\ event[e] = event[f]
    /\ pc[e] = "awaiting" /\ call[e] = "pending"
    /\ pc[f] = "returned" /\ call[f] = "rejected"

\* C10: a result is returned only after the send outcome is known, and its
\* status matches the outcome; while the call is pending the invocation stays
\* suspended and has no result.
C10_ResultAfterOutcome ==
  \A e \in Events :
    /\ result[e].kind = "return" =>
         /\ call[e] \in {"resolved", "rejected", "threw"}
         /\ result[e].statusCode = 200 <=> call[e] = "resolved"
         /\ result[e].statusCode = 400 <=> call[e] \in {"rejected", "threw"}
    /\ call[e] = "pending" => pc[e] = "awaiting" /\ result[e].kind = "none"

C10_Witness ==
  /\ \E e \in Events : call[e] = "pending" /\ pc[e] = "awaiting"
  /\ \E e \in Events : call[e] = "resolved" /\ result[e].statusCode = 200

=============================================================================
